---- MODULE Spec2Model ----
(***************************************************************************)
(* A model of go-skyconf: the binding pass (Parse, parse.go) and the       *)
(* refresh scheduler (updater, refresh.go).                                *)
(*                                                                         *)
(* The record is a list of leaf fields as extractFields returns them; the  *)
(* leaves are integer fields, whose coercion (strconv.ParseInt) can fail   *)
(* and can yield the zero value.  A Source is an external collaborator:    *)
(* every fetch answers with an error or with a value for any subset of the *)
(* requested keys.                                                         *)
(***************************************************************************)
EXTENDS Integers, Sequences, FiniteSets, TLC

\* Longest source list handed to Parse.
MaxSources == 2

\* ------------------------------------------------------------------------
\* Values

\* Marks a key the source's response does not hold (values[key] has ok = false).
NoValue == "<absent>"

\* The raw strings a source may return for a key.
RawValues == {"0", "5", "x"}

Digits == <<"0", "1", "2", "3", "4", "5", "6", "7", "8", "9">>

\* strconv.ParseInt on one-digit decimal literals; anything else is an error.
ParseInt(value) ==
    IF \E d \in 1..10 : Digits[d] = value
    THEN [err |-> FALSE, val |-> (CHOOSE d \in 1..10 : Digits[d] = value) - 1]
    ELSE [err |-> TRUE, val |-> 0]

\* reflect.Value.IsZero of an integer field.
IsZero(v) == v = 0

\* processFieldValue without the check of the conversion's error: the result
\* of a failed conversion is stored as if it were the value.
processFieldValueUnchecked(isDefaultValue, value, cur) ==
    IF isDefaultValue /\ ~IsZero(cur)
    THEN [err |-> FALSE, val |-> cur]
    ELSE [err |-> FALSE, val |-> ParseInt(value).val]

\* processFieldValue for a field of integer kind: the default is skipped when
\* the field is non-zero; the field is set only when the parse succeeds.
processFieldValue(isDefaultValue, value, cur) ==
    IF isDefaultValue /\ ~IsZero(cur)
    THEN [err |-> FALSE, val |-> cur]
    ELSE LET p == ParseInt(value)
         IN  IF p.err THEN [err |-> TRUE, val |-> cur]
                      ELSE [err |-> FALSE, val |-> p.val]

\* crc32.ChecksumIEEE of the raw strings of the model, in hexadecimal.
ChecksumIEEE(value) ==
    CASE value = "0" -> "f4dbdf21"
      [] value = "5" -> "84b12bae"
      [] value = "7" -> "6abf4a82"
      [] value = "9" -> "8d076785"
      [] value = "x" -> "8cdc1683"
      [] OTHER       -> "00000000"

\* ------------------------------------------------------------------------
\* Sources and keys

SourceIds == <<"g", "r", "s", "t">>

\* The i-th source of the list: a mock source with its own id and path.
mockSource(i, refreshable) ==
    [id |-> SourceIds[i], path |-> "/" \o SourceIds[i] \o "/",
     refreshable |-> refreshable]

\* ToSnakeCase on the path segments of the model.
ToSnakeCase(part) ==
    CASE part = "Param1" -> "param1"
      [] part = "Param2" -> "param2"
      [] part = "Inner"  -> "inner"
      [] part = "Emb"    -> "emb"
      [] part = "Sib"    -> "sib"
      [] part = "LeafA"  -> "leaf_a"
      [] part = "LeafB"  -> "leaf_b"
      [] OTHER           -> part

RECURSIVE Join(_)
Join(parts) ==
    IF Len(parts) = 0 THEN ""
    ELSE IF Len(parts) = 1 THEN parts[1]
    ELSE parts[1] \o "/" \o Join(Tail(parts))

\* makeParameterName: snake-cases the parts IN PLACE and joins them behind the
\* path.  Returns the name and the parts slice as the call leaves it.
makeParameterName(path, parts) ==
    LET snake == [i \in 1..Len(parts) |-> ToSnakeCase(parts[i])]
    IN  [name |-> path \o Join(snake), parts |-> snake]

\* mockSource.ParameterName / ssmSource.ParameterName.
ParameterName(source, parts) == makeParameterName(source.path, parts)

\* ------------------------------------------------------------------------
\* The record: two leaf fields, in declaration order.

fieldOptions(defaultValue, optional, source, refresh, id) ==
    [defaultValue |-> defaultValue, optional |-> optional, source |-> source,
     refresh |-> refresh, id |-> id]

fieldInfo(nameParts, options) == [nameParts |-> nameParts, options |-> options]

\* Pinned source ids a tag may name: the ids of the list and one that matches
\* no source.
PinIds == {""} \cup {SourceIds[i] : i \in 1..MaxSources} \cup {"zz"}

\* Param1: every combination of options.
Field1Specs ==
    { fieldInfo(<<"Param1">>, fieldOptions(d, o, s, rf, "Param1")) :
        d \in {"", "7"}, o \in BOOLEAN, s \in PinIds, rf \in {0, 1} }

\* Param2: tagged with Param1's key ("param1") or with its own.
Field2Specs ==
    { fieldInfo(np, fieldOptions(d, o, s, rf, "Param2")) :
        np \in {<<"param1">>, <<"Param2">>}, d \in {"", "x"}, o \in BOOLEAN,
        s \in {"", "g"}, rf \in {0, 2} }

\* The values the record may hold before Parse.
InitialValues == {0, 9}

NoErr == [name |-> "", src |-> "", key |-> ""]

Err(name, src, key) == [name |-> name, src |-> src, key |-> key]

VARIABLES
    fields,     \* []fieldInfo, as extracted; nameParts is rewritten by makeParameterName
    sources,    \* the source list given to Parse
    cfg,        \* the record: cfg[i] is the value of the leaf fields[i].structField
    cfg0,       \* the record before Parse
    pc,         \* where Parse stands
    err,        \* the error Parse returns
    sourceIdx,  \* index of the source being processed
    fieldsMap,  \* key -> field (index) for the current source
    values,     \* the current source's response: key -> raw value or NoValue
    pending,    \* keys of fieldsMap the range loop has not reached
    upd,        \* the updater
    r,          \* the Refresher Parse returns
    lastVal,    \* per field: value of its key in the last applicable response holding it
    fetched,    \* indices of the sources fetched, in order
    requested,  \* <<source index, field>> pairs whose key was requested
    calls,      \* the calls made on the Refresher, in order
    ctxDone,    \* ctxDone[k]: the context given to call k is cancelled
    sched,      \* the coordinating goroutine started by updater.Refresh
    tickChannel,\* the channel the timer goroutines forward ticks on
    tickers,    \* per interval: the ticker and its forwarding goroutine
    tasks,      \* the refreshFieldsFromSource activations, in start order
    once,       \* the RefreshOnce call in progress
    lockHolder, \* the task holding the record's lock (0: free)
    rx,         \* the receiver on the updates channel
    efErr,      \* the last error handed to the caller's error function
    panicked,   \* a goroutine panicked: the process is gone
    noRefresh,  \* the package-level nilRefresh value
    target,     \* the record type handed to extractFields
    withUntagged, \* extractFields' flag: fields without a sky tag are included
    heap,       \* the backing arrays of the []string slices
    extracted,  \* what extractFields returned
    xpc,        \* where the extraction stands
    mapValue,   \* the raw value handed to processFieldValue for a map field
    mapField,   \* the map field
    mapErr,     \* processFieldValue returned an error
    mpc,        \* where the coercion stands
    duration,   \* the interval d handed to jitterTickerClock.NewTicker
    unixNano,   \* the clock's reading, Now().UnixNano()
    period,     \* the period of the ticker created
    tpc         \* where the creation of the ticker stands

\* What only Parse writes.
pvars == <<fields, sources, cfg0, pc, err, sourceIdx, fieldsMap, values,
           pending, lastVal, fetched, requested>>

\* What only the refresher writes.
rvars == <<calls, ctxDone, sched, tickChannel, tickers, tasks, once,
           lockHolder, rx, efErr, panicked, noRefresh>>

\* What the library functions checked on their own write.
wvars == <<target, withUntagged, heap, extracted, xpc>>

mvars == <<mapValue, mapField, mapErr, mpc>>

tvars == <<duration, unixNano, period, tpc>>

lvars == <<target, withUntagged, heap, extracted, xpc,
           mapValue, mapField, mapErr, mpc, duration, unixNano, period, tpc>>

vars == <<fields, sources, cfg, cfg0, pc, err, sourceIdx, fieldsMap, values,
          pending, upd, r, lastVal, fetched, requested, calls, ctxDone,
          sched, tickChannel, tickers, tasks, once, lockHolder, rx, efErr,
          panicked, noRefresh, target, withUntagged, heap, extracted, xpc,
          mapValue, mapField, mapErr, mpc, duration, unixNano, period, tpc>>

FieldIdx == DOMAIN fields

EmptyMap == [k \in {} |-> 0]

\* ------------------------------------------------------------------------
\* updater (registration part)

NewUpdater ==
    [raw |-> <<>>, locker |-> "unset", timings |-> EmptyMap, updates |-> "nil"]

\* updater.empty
empty(u) == Len(u.raw) = 0

\* updater.add without the look through the raw list: every call appends.
addAgain(u, field, key, source, value) ==
    IF ~sources[source].refreshable
    THEN [err |-> TRUE, upd |-> u]
    ELSE [err |-> FALSE,
          upd |-> [u EXCEPT !.raw = Append(@,
                         [field |-> field, key |-> key, source |-> source,
                          valueHash |-> ChecksumIEEE(value)])]]

\* updater.add leaving a field that is already in the raw list as it is.
addKeepFirst(u, field, key, source, value) ==
    IF ~sources[source].refreshable
    THEN [err |-> TRUE, upd |-> u]
    ELSE LET crc == ChecksumIEEE(value)
             at  == {j \in 1..Len(u.raw) : u.raw[j].field = field}
         IN  IF at # {}
             THEN [err |-> FALSE, upd |-> u]
             ELSE [err |-> FALSE,
                   upd |-> [u EXCEPT !.raw = Append(@,
                                  [field |-> field, key |-> key,
                                   source |-> source, valueHash |-> crc])]]

\* updater.add without the check of source.Refreshable().
addAnySource(u, field, key, source, value) ==
    LET crc == ChecksumIEEE(value)
        at  == {j \in 1..Len(u.raw) : u.raw[j].field = field}
    IN  IF at # {}
        THEN LET j == CHOOSE j \in at : \A k \in at : j <= k
             IN  [err |-> FALSE,
                  upd |-> [u EXCEPT !.raw[j] =
                             [field |-> field, key |-> key,
                              source |-> source, valueHash |-> crc]]]
        ELSE [err |-> FALSE,
              upd |-> [u EXCEPT !.raw = Append(@,
                             [field |-> field, key |-> key,
                              source |-> source, valueHash |-> crc])]]

\* updater.add: registers the field in the raw list; a field already there has
\* its key, source and hash replaced.
add(u, field, key, source, value) ==
    IF ~sources[source].refreshable
    THEN [err |-> TRUE, upd |-> u]
    ELSE LET crc == ChecksumIEEE(value)
             at  == {j \in 1..Len(u.raw) : u.raw[j].field = field}
         IN  IF at # {}
             THEN LET j == CHOOSE j \in at : \A k \in at : j <= k
                  IN  [err |-> FALSE,
                       upd |-> [u EXCEPT !.raw[j] =
                                  [field |-> field, key |-> key,
                                   source |-> source, valueHash |-> crc]]]
             ELSE [err |-> FALSE,
                   upd |-> [u EXCEPT !.raw = Append(@,
                                  [field |-> field, key |-> key,
                                   source |-> source, valueHash |-> crc])]]

\* updater.setupLock
setupLock(u, lockable) ==
    [u EXCEPT !.locker = IF lockable THEN "cfg" ELSE "nilLock"]

\* ------------------------------------------------------------------------
\* Parse

\* The field is asked of this source: it pins no source, or pins this one.
Applicable(field, source) ==
    field.options.source = "" \/ field.options.source = source.id

\* The loop building keys and fieldsMap for one source (parse.go 123-131),
\* from field i on.  acc = [keys, fieldsMap, fields, asked].
RECURSIVE buildKeys(_, _, _)
buildKeys(source, i, acc) ==
    IF i > Len(acc.fields) THEN acc
    ELSE IF Applicable(acc.fields[i], source)
         THEN LET pn == ParameterName(source, acc.fields[i].nameParts)
              IN  buildKeys(source, i + 1,
                     [keys      |-> Append(acc.keys, pn.name),
                      fieldsMap |-> (pn.name :> i) @@ acc.fieldsMap,
                      fields    |-> [acc.fields EXCEPT ![i].nameParts = pn.parts],
                      asked     |-> acc.asked \cup {i}])
         ELSE buildKeys(source, i + 1, acc)

\* The sources' ids hold the pinned id.
SourceFound(id) == \E j \in 1..Len(sources) : sources[j].id = id

\* The first field, in order, whose pinned source is not in the list (0: none).
FirstUnmatched ==
    LET bad == {i \in FieldIdx : fields[i].options.source # ""
                                  /\ ~SourceFound(fields[i].options.source)}
    IN  IF bad = {} THEN 0 ELSE CHOOSE i \in bad : \A k \in bad : i <= k

Done(e) ==
    /\ pc' = "done"
    /\ err' = e

\* Parse without the lookup of the pinned sources (lines 84-101).
ParseStartNoLookup ==
    /\ pc = "start"
    /\ IF Len(sources) = 0
       THEN Done(Err("ErrNoSource", "", ""))
       ELSE pc' = "defaults" /\ err' = err
    /\ UNCHANGED <<fields, sources, cfg, cfg0, sourceIdx, fieldsMap, values,
                   pending, upd, r, lastVal, fetched, requested>>
    /\ UNCHANGED rvars
    /\ UNCHANGED lvars

\* Parse, lines 70-101: no source, then the pinned sources are looked up.
ParseStart ==
    /\ pc = "start"
    /\ IF Len(sources) = 0
       THEN Done(Err("ErrNoSource", "", ""))
       ELSE IF FirstUnmatched # 0
            THEN Done(Err("ErrSourceNotFound",
                          fields[FirstUnmatched].options.source, ""))
            ELSE pc' = "defaults" /\ err' = err
    /\ UNCHANGED <<fields, sources, cfg, cfg0, sourceIdx, fieldsMap, values,
                   pending, upd, r, lastVal, fetched, requested>>
    /\ UNCHANGED rvars
    /\ UNCHANGED lvars

\* The loop over the defaults (parse.go 104-116), from field i on.
RECURSIVE applyDefaults(_, _)
applyDefaults(i, c) ==
    IF i > Len(fields) THEN [err |-> FALSE, cfg |-> c]
    ELSE IF fields[i].options.defaultValue = "" THEN applyDefaults(i + 1, c)
    ELSE LET p == processFieldValue(TRUE, fields[i].options.defaultValue, c[i])
         IN  IF p.err THEN [err |-> TRUE, cfg |-> c]
             ELSE applyDefaults(i + 1, [c EXCEPT ![i] = p.val])

\* Parse, lines 103-119: the defaults, then the updater is created.
ParseDefaults ==
    /\ pc = "defaults"
    /\ LET d == applyDefaults(1, cfg)
       IN  /\ cfg' = d.cfg
           /\ IF d.err THEN Done(Err("ErrBadDefaultFieldValue", "", ""))
                       ELSE pc' = "source" /\ err' = err
    /\ sourceIdx' = 1
    /\ upd' = NewUpdater
    /\ UNCHANGED <<fields, sources, cfg0, fieldsMap, values, pending, r,
                   lastVal, fetched, requested>>
    /\ UNCHANGED rvars
    /\ UNCHANGED lvars

\* After the range over fieldsMap ends: the next source, or the end of the loop.
NextSource ==
    IF sourceIdx < Len(sources)
    THEN pc' = "source" /\ sourceIdx' = sourceIdx + 1
    ELSE pc' = "finish" /\ sourceIdx' = sourceIdx

\* The responses a source may give to a request for these keys.
Responses(keys) == [keys -> RawValues \cup {NoValue}]

\* Parse, lines 122-139: keys and fieldsMap of the current source, and the fetch.
ParseFetch ==
    /\ pc = "source"
    /\ LET source == sources[sourceIdx]
           b == buildKeys(source, 1, [keys |-> <<>>, fieldsMap |-> EmptyMap,
                                      fields |-> fields, asked |-> {}])
           keyset == {b.keys[j] : j \in 1..Len(b.keys)}
       IN  /\ fields' = b.fields
           /\ fetched' = Append(fetched, sourceIdx)
           /\ requested' = requested \cup {<<sourceIdx, i>> : i \in b.asked}
           /\ \/ \* source.Source fails
                 /\ Done(Err("ErrGetParameters", source.id, ""))
                 /\ UNCHANGED <<fieldsMap, values, pending, lastVal, sourceIdx>>
              \/ \* source.Source answers
                 \E resp \in Responses(keyset) :
                    /\ fieldsMap' = b.fieldsMap
                    /\ values' = resp
                    /\ pending' = DOMAIN b.fieldsMap
                    /\ lastVal' = [i \in FieldIdx |->
                          IF Applicable(fields[i], source)
                             /\ resp[ParameterName(source, fields[i].nameParts).name] # NoValue
                          THEN resp[ParameterName(source, fields[i].nameParts).name]
                          ELSE lastVal[i]]
                    /\ err' = err
                    /\ IF DOMAIN b.fieldsMap = {}
                       THEN NextSource
                       ELSE pc' = "process" /\ sourceIdx' = sourceIdx
    /\ UNCHANGED <<sources, cfg, cfg0, upd, r>>
    /\ UNCHANGED rvars
    /\ UNCHANGED lvars

\* One iteration of the range over fieldsMap (parse.go 142-190) for this key:
\* the record, the updater and the error it leaves ("" : the loop goes on).
processKey(key) ==
    LET field  == fieldsMap[key]
        opts   == fields[field].options
        source == sources[sourceIdx]
        value  == values[key]
        ok     == value # NoValue
        same   == [cfg |-> cfg, upd |-> upd, err |-> NoErr]
    IN  IF ~ok
        THEN IF opts.source = "" /\ sourceIdx < Len(sources) THEN same
             ELSE IF ~IsZero(cfg[field]) THEN same
             ELSE IF opts.optional THEN same
             ELSE [same EXCEPT !.err =
                     Err("ErrParameterNotFound",
                         IF opts.source = "" /\ Len(sources) > 1
                         THEN "(any)" ELSE source.id,
                         key)]
        ELSE LET p == processFieldValue(FALSE, value, cfg[field])
             IN  IF p.err
                 THEN [same EXCEPT !.err = Err("ErrBadFieldValue", "", key)]
                 ELSE LET c == [cfg EXCEPT ![field] = p.val]
                      IN  IF opts.refresh # 0
                          THEN LET a == add(upd, field, key, sourceIdx, value)
                               IN  IF a.err
                                   THEN [cfg |-> c, upd |-> upd,
                                         err |-> Err("ErrSourceNotRefreshable",
                                                     source.id, key)]
                                   ELSE [cfg |-> c, upd |-> a.upd, err |-> NoErr]
                          ELSE [cfg |-> c, upd |-> upd, err |-> NoErr]

\* The range over fieldsMap keeping the error and going on with the next key.
ParseFieldGoesOn ==
    /\ pc = "process"
    /\ \E key \in pending :
          LET res == processKey(key)
          IN  /\ cfg' = res.cfg
              /\ upd' = res.upd
              /\ pending' = pending \ {key}
              /\ err' = IF res.err # NoErr THEN res.err ELSE err
              /\ IF pending \ {key} = {}
                 THEN NextSource
                 ELSE pc' = "process" /\ sourceIdx' = sourceIdx
    /\ UNCHANGED <<fields, sources, cfg0, fieldsMap, values, r, lastVal,
                   fetched, requested>>
    /\ UNCHANGED rvars
    /\ UNCHANGED lvars

\* Parse, lines 142-190: the range over fieldsMap visits the keys in any order.
ParseField ==
    /\ pc = "process"
    /\ \E key \in pending :
          LET res == processKey(key)
          IN  /\ cfg' = res.cfg
              /\ upd' = res.upd
              /\ pending' = pending \ {key}
              /\ IF res.err # NoErr
                 THEN Done(res.err) /\ sourceIdx' = sourceIdx
                 ELSE /\ err' = err
                      /\ IF pending \ {key} = {}
                         THEN NextSource
                         ELSE pc' = "process" /\ sourceIdx' = sourceIdx
    /\ UNCHANGED <<fields, sources, cfg0, fieldsMap, values, r, lastVal,
                   fetched, requested>>
    /\ UNCHANGED rvars
    /\ UNCHANGED lvars

\* Parse, lines 193-205: the refresher returned.
ParseFinish ==
    /\ pc = "finish"
    /\ IF empty(upd)
       THEN r' = "noRefresh" /\ upd' = upd
       ELSE \E lockable \in BOOLEAN :
               r' = "upd" /\ upd' = setupLock(upd, lockable)
    /\ Done(NoErr)
    /\ UNCHANGED <<fields, sources, cfg, cfg0, sourceIdx, fieldsMap, values,
                   pending, lastVal, fetched, requested>>
    /\ UNCHANGED rvars
    /\ UNCHANGED lvars

\* No call has been made on the refresher.
NoOnce == [pc |-> "idle", ctx |-> 0, err |-> "", cancelled |-> FALSE,
           pending |-> {}, interval |-> 0]

NoSched == [pc |-> "none", ctx |-> 0, ef |-> FALSE]

RefresherIdle ==
    /\ calls = <<>>
    /\ ctxDone = <<>>
    /\ sched = NoSched
    /\ tickChannel = "nil"
    /\ tickers = EmptyMap
    /\ tasks = <<>>
    /\ once = NoOnce
    /\ lockHolder = 0
    /\ rx = "idle"
    /\ efErr = ""
    /\ panicked = FALSE
    /\ noRefresh = [updates |-> "open", once |-> FALSE, waiting |-> {}]

\* No record type is being walked.
WalkIdle ==
    /\ target = <<>>
    /\ withUntagged = FALSE
    /\ heap = <<>>
    /\ extracted = <<>>
    /\ xpc = "idle"

\* A map field not yet made.
NilMap == [isNil |-> TRUE, mp |-> EmptyMap]

\* No map value is being coerced.
MapIdle ==
    /\ mapValue = <<>>
    /\ mapField = NilMap
    /\ mapErr = FALSE
    /\ mpc = "idle"

\* No ticker is being created by the jitter clock.
TickerIdle ==
    /\ duration = 0
    /\ unixNano = 0
    /\ period = 0
    /\ tpc = "idle"

\* No library function is being checked on its own.
LibraryIdle ==
    /\ WalkIdle
    /\ MapIdle
    /\ TickerIdle

Init ==
    /\ \E n \in 0..MaxSources, nr \in 0..MaxSources :
          /\ nr <= n
          /\ sources = [i \in 1..n |-> mockSource(i, i # nr)]
    /\ \E f1 \in Field1Specs, f2 \in Field2Specs : fields = <<f1, f2>>
    /\ \E v1 \in InitialValues : cfg = <<v1, 0>>
    /\ cfg0 = cfg
    /\ pc = "start"
    /\ err = NoErr
    /\ sourceIdx = 0
    /\ fieldsMap = EmptyMap
    /\ values = EmptyMap
    /\ pending = {}
    /\ upd = NewUpdater
    /\ r = "nil"
    /\ lastVal = [i \in 1..2 |-> NoValue]
    /\ fetched = <<>>
    /\ requested = {}
    /\ RefresherIdle
    /\ LibraryIdle

Next ==
    \/ ParseStart
    \/ ParseDefaults
    \/ ParseFetch
    \/ ParseField
    \/ ParseFinish

Spec == Init /\ [][Next]_vars


\* ---------------------------------------------------------------------------
\* The refresher: updater.Refresh, its goroutines, and the refresh tasks.

\* Most keys the tasks started by the tickers fetch in a run.
MaxFetched == 2

refreshedFields == [fields |-> <<>>, keys |-> <<>>, valueHashes |-> <<>>]

\* processRaw's loop from entry j of the raw list on.  A group of timings is
\* named by <<interval, source>>.
RECURSIVE processRawFrom(_, _, _)
processRawFrom(raw, j, timings) ==
    IF j > Len(raw) THEN timings
    ELSE LET rfs == raw[j]
             g   == <<fields[rfs.field].options.refresh, rfs.source>>
             rf  == IF g \in DOMAIN timings THEN timings[g] ELSE refreshedFields
             rf2 == [fields      |-> Append(rf.fields, rfs.field),
                     keys        |-> Append(rf.keys, rfs.key),
                     valueHashes |-> Append(rf.valueHashes, rfs.valueHash)]
         IN  processRawFrom(raw, j + 1, (g :> rf2) @@ timings)

processRaw(u) ==
    [u EXCEPT !.timings = processRawFrom(u.raw, 1, u.timings), !.raw = <<>>]

\* The groups refreshed every d, lowest source first.
GroupsOf(u, d) ==
    LET S == {g \in DOMAIN u.timings : g[1] = d}
        ord[T \in SUBSET S] ==
            IF T = {} THEN <<>>
            ELSE LET g == CHOOSE x \in T : \A y \in T : x[2] <= y[2]
                 IN  <<g>> \o ord[T \ {g}]
    IN  ord[S]

Intervals(u) == {g[1] : g \in DOMAIN u.timings}

\* refreshFieldsFromSource for group g under the context of call k.
newTask(mode, k, g) ==
    [mode |-> mode, ctx |-> k, group |-> g, pc |-> "fetch", i |-> 0,
     vals |-> <<>>]

doneTask(t) == [t EXCEPT !.pc = "done", !.i = 0, !.vals = <<>>]

Live(t) == t.pc # "done"

\* nilRefresh.Refresh (15-34): a goroutine waits for the context of call k.
nilRefreshRefresh(k) ==
    /\ noRefresh' = [noRefresh EXCEPT !.waiting = @ \cup {k}]
    /\ calls' = Append(calls, [op |-> "Refresh", ch |-> "noRefresh", ret |-> ""])
    /\ ctxDone' = Append(ctxDone, FALSE)
    /\ UNCHANGED <<upd, sched, tickChannel, tickers>>

\* updater.Refresh (94-181), up to the return of the channel.
updaterRefresh(k, ef) ==
    IF empty(upd)
    THEN nilRefreshRefresh(k)
    ELSE LET u == processRaw(upd)
         IN  /\ upd' = [u EXCEPT !.updates = IF @ = "nil" THEN "open" ELSE @]
             /\ tickChannel' = "open"
             /\ tickers' = [d \in Intervals(u) |->
                              [buf |-> FALSE, stopped |-> FALSE, prod |-> "recv"]]
             /\ sched' = [pc |-> "select", ctx |-> k, ef |-> ef]
             /\ calls' = Append(calls, [op |-> "Refresh", ch |-> "upd", ret |-> ""])
             /\ ctxDone' = Append(ctxDone, FALSE)
             /\ UNCHANGED noRefresh

\* The caller calls Refresh on the Refresher Parse returned.
Refresh(ef) ==
    /\ ~panicked
    /\ pc = "done" /\ err = NoErr
    /\ once.pc = "idle"
    /\ IF r = "noRefresh"
       THEN nilRefreshRefresh(Len(calls) + 1)
       ELSE updaterRefresh(Len(calls) + 1, ef)
    /\ UNCHANGED <<cfg, r, tasks, once, lockHolder, rx, efErr, panicked>>
    /\ UNCHANGED pvars
    /\ UNCHANGED lvars

\* The goroutine of nilRefresh.Refresh returning without the close.
NilRefreshReturn ==
    /\ ~panicked
    /\ \E k \in noRefresh.waiting :
          /\ ctxDone[k]
          /\ noRefresh' = [noRefresh EXCEPT !.waiting = @ \ {k}]
    /\ UNCHANGED <<cfg, upd, r, calls, ctxDone, sched, tickChannel, tickers,
                   tasks, once, lockHolder, rx, efErr, panicked>>
    /\ UNCHANGED pvars
    /\ UNCHANGED lvars

\* The goroutine of nilRefresh.Refresh (26-31).
NilRefreshClose ==
    /\ ~panicked
    /\ \E k \in noRefresh.waiting :
          /\ ctxDone[k]
          /\ noRefresh' = [updates |-> "closed", once |-> TRUE,
                           waiting |-> noRefresh.waiting \ {k}]
    /\ UNCHANGED <<cfg, upd, r, calls, ctxDone, sched, tickChannel, tickers,
                   tasks, once, lockHolder, rx, efErr, panicked>>
    /\ UNCHANGED pvars
    /\ UNCHANGED lvars

\* Keys the tasks of one tick of interval d fetch.
KeysOf(d) ==
    LET gs == GroupsOf(upd, d)
        n[j \in 0..Len(gs)] ==
            IF j = 0 THEN 0 ELSE Len(upd.timings[gs[j]].keys) + n[j - 1]
    IN  n[Len(gs)]

\* Keys fetched by the tasks started so far, and to be fetched by the tasks
\* the ticks not yet served will start.
Fetched ==
    LET done[j \in 0..Len(tasks)] ==
            IF j = 0 THEN 0
            ELSE Len(upd.timings[tasks[j].group].keys) + done[j - 1]
        owed[D \in SUBSET DOMAIN tickers] ==
            IF D = {} THEN 0
            ELSE LET d == CHOOSE x \in D : TRUE
                 IN  ((IF tickers[d].buf THEN 1 ELSE 0)
                      + (IF tickers[d].prod = "send" THEN 1 ELSE 0)) * KeysOf(d)
                     + owed[D \ {d}]
    IN  done[Len(tasks)] + owed[DOMAIN tickers]

\* The ticker of interval d fires: a tick goes into its channel of capacity 1.
Tick ==
    /\ ~panicked
    /\ \E d \in DOMAIN tickers :
          /\ ~tickers[d].stopped
          /\ ~tickers[d].buf
          /\ Fetched + KeysOf(d) <= MaxFetched
          /\ tickers' = [tickers EXCEPT ![d].buf = TRUE]
    /\ UNCHANGED <<cfg, upd, r, calls, ctxDone, sched, tickChannel, tasks,
                   once, lockHolder, rx, efErr, panicked, noRefresh>>
    /\ UNCHANGED pvars
    /\ UNCHANGED lvars

\* The forwarding goroutine (131-136) receives a tick from its ticker.
Forward ==
    /\ ~panicked
    /\ \E d \in DOMAIN tickers :
          /\ tickers[d].prod = "recv"
          /\ tickers[d].buf
          /\ tickers' = [tickers EXCEPT ![d].buf = FALSE, ![d].prod = "send"]
    /\ UNCHANGED <<cfg, upd, r, calls, ctxDone, sched, tickChannel, tasks,
                   once, lockHolder, rx, efErr, panicked, noRefresh>>
    /\ UNCHANGED pvars
    /\ UNCHANGED lvars

\* Line 134 when tickChannel is closed: send on a closed channel.
ForwardPanic ==
    /\ ~panicked
    /\ tickChannel = "closed"
    /\ \E d \in DOMAIN tickers : tickers[d].prod = "send"
    /\ panicked' = TRUE
    /\ UNCHANGED <<cfg, upd, r, calls, ctxDone, sched, tickChannel, tickers,
                   tasks, once, lockHolder, rx, efErr, noRefresh>>
    /\ UNCHANGED pvars
    /\ UNCHANGED lvars

\* The select at 159 takes a tick (165-175): one task per group of the
\* interval, none awaited.
CoordTick ==
    /\ ~panicked
    /\ sched.pc = "select"
    /\ \E d \in DOMAIN tickers :
          /\ tickers[d].prod = "send"
          /\ tickers' = [tickers EXCEPT ![d].prod = "recv"]
          /\ LET gs == GroupsOf(upd, d)
             IN  tasks' = tasks \o [j \in 1..Len(gs) |->
                                       newTask("tick", sched.ctx, gs[j])]
    /\ UNCHANGED <<cfg, upd, r, calls, ctxDone, sched, tickChannel, once,
                   lockHolder, rx, efErr, panicked, noRefresh>>
    /\ UNCHANGED pvars
    /\ UNCHANGED lvars

\* The select at 159 takes ctx.Done (161-162); the first deferred call stops
\* the tickers (151-155).
CoordDone ==
    /\ ~panicked
    /\ sched.pc = "select"
    /\ ctxDone[sched.ctx]
    /\ sched' = [sched EXCEPT !.pc = "closeTick"]
    /\ tickers' = [d \in DOMAIN tickers |-> [tickers[d] EXCEPT !.stopped = TRUE]]
    /\ UNCHANGED <<cfg, upd, r, calls, ctxDone, tickChannel, tasks, once,
                   lockHolder, rx, efErr, panicked, noRefresh>>
    /\ UNCHANGED pvars
    /\ UNCHANGED lvars

\* defer close(tickChannel), line 148.
CoordCloseTick ==
    /\ ~panicked
    /\ sched.pc = "closeTick"
    /\ tickChannel' = "closed"
    /\ sched' = [sched EXCEPT !.pc = "closeUpdates"]
    /\ UNCHANGED <<cfg, upd, r, calls, ctxDone, tickers, tasks, once,
                   lockHolder, rx, efErr, panicked, noRefresh>>
    /\ UNCHANGED pvars
    /\ UNCHANGED lvars

\* defer close(u.updates), line 147.
CoordCloseUpdates ==
    /\ ~panicked
    /\ sched.pc = "closeUpdates"
    /\ IF upd.updates = "closed"
       THEN panicked' = TRUE /\ upd' = upd
       ELSE panicked' = panicked /\ upd' = [upd EXCEPT !.updates = "closed"]
    /\ sched' = [sched EXCEPT !.pc = "exited"]
    /\ UNCHANGED <<cfg, r, calls, ctxDone, tickChannel, tickers, tasks, once,
                   lockHolder, rx, efErr, noRefresh>>
    /\ UNCHANGED pvars
    /\ UNCHANGED lvars

\* What a source answers for one key on a refresh: two values that differ
\* from the one Parse stored and from each other, a value that cannot be
\* coerced, or no value.
RefreshValues == {"0", "7", "x", NoValue}

\* Whether ctx.Err() is non-nil for task t: the caller's context, and for a
\* task of RefreshOnce the context derived at line 194.
ctxErr(t, o) == ctxDone[t.ctx] \/ (t.mode = "once" /\ o.cancelled)

\* handleErr with a RefreshOnce closure that records the error and does not
\* cancel.
handleErrNoCancel(t, e) ==
    IF e = "" THEN [once |-> once, efErr |-> efErr]
    ELSE IF t.mode = "once"
         THEN [once |-> [once EXCEPT !.err = e], efErr |-> efErr]
         ELSE [once |-> once, efErr |-> IF sched.ef THEN e ELSE efErr]

\* handleErr (284-292) with the error function the task was given: the closure
\* of RefreshOnce (200-203) or the caller's ef ("": no error).
handleErr(t, e) ==
    IF e = "" THEN [once |-> once, efErr |-> efErr]
    ELSE IF t.mode = "once"
         THEN [once |-> [once EXCEPT !.err = e, !.cancelled = TRUE],
               efErr |-> efErr]
         ELSE [once |-> once, efErr |-> IF sched.ef THEN e ELSE efErr]

\* The task goes on to its next field, or returns after the last one.
nextField(t) ==
    IF t.i = Len(t.vals) THEN doneTask(t)
    ELSE [t EXCEPT !.pc = "check", !.i = @ + 1, !.vals[t.i] = NoValue]

\* afterField with a return on every error: the first error of a task ends it.
afterFieldStop(n, e) ==
    LET t == tasks[n]
        h == handleErr(t, e)
    IN  /\ once' = h.once
        /\ efErr' = h.efErr
        /\ tasks' = [tasks EXCEPT ![n] =
                        IF e # "" \/ ctxErr(t, h.once) THEN doneTask(t)
                        ELSE nextField(t)]

\* Lines 333-338: the error, if any, is handled, and the loop goes on unless
\* the context is cancelled.
afterField(n, e) ==
    LET t == tasks[n]
        h == handleErr(t, e)
    IN  /\ once' = h.once
        /\ efErr' = h.efErr
        /\ tasks' = [tasks EXCEPT ![n] = IF ctxErr(t, h.once) THEN doneTask(t)
                                         ELSE nextField(t)]

\* Lines 296-299: the fetch of the group's keys.
TaskFetch ==
    /\ ~panicked
    /\ \E n \in 1..Len(tasks) :
          LET t  == tasks[n]
              rf == upd.timings[t.group]
          IN  /\ t.pc = "fetch"
              /\ \/ \* source.Source fails
                    LET h == handleErr(t, "source error")
                    IN  /\ once' = h.once
                        /\ efErr' = h.efErr
                        /\ tasks' = [tasks EXCEPT ![n] = doneTask(t)]
                 \/ \E resp \in [1..Len(rf.keys) -> RefreshValues] :
                       /\ tasks' = [tasks EXCEPT ![n] =
                                      [t EXCEPT !.pc = "check", !.i = 1,
                                                !.vals = resp]]
                       /\ UNCHANGED <<once, efErr>>
    /\ UNCHANGED <<cfg, upd, r, calls, ctxDone, sched, tickChannel, tickers,
                   lockHolder, rx, panicked, noRefresh>>
    /\ UNCHANGED pvars
    /\ UNCHANGED lvars

\* Lines 303-308 and 329-331: the lookup of the key and the comparison of the
\* value's checksum with the stored one.
TaskCheck ==
    /\ ~panicked
    /\ \E n \in 1..Len(tasks) :
          LET t   == tasks[n]
              rf  == upd.timings[t.group]
              val == t.vals[t.i]
          IN  /\ t.pc = "check"
              /\ IF val = NoValue
                 THEN afterField(n, "ErrMissingKeyOnRefresh")
                 ELSE /\ tasks' = [tasks EXCEPT ![n] =
                                     IF ChecksumIEEE(val) = rf.valueHashes[t.i]
                                     THEN nextField(t)
                                     ELSE [t EXCEPT !.pc = "lock"]]
                      /\ UNCHANGED <<once, efErr>>
    /\ UNCHANGED <<cfg, upd, r, calls, ctxDone, sched, tickChannel, tickers,
                   lockHolder, rx, panicked, noRefresh>>
    /\ UNCHANGED pvars
    /\ UNCHANGED lvars

\* TaskLock without the Lock call: the task goes on to write the field.
TaskLockSkipped ==
    /\ ~panicked
    /\ \E n \in 1..Len(tasks) :
          /\ tasks[n].pc = "lock"
          /\ tasks' = [tasks EXCEPT ![n].pc = "apply"]
    /\ UNCHANGED <<cfg, upd, r, calls, ctxDone, sched, tickChannel, tickers,
                   once, lockHolder, rx, efErr, panicked, noRefresh>>
    /\ UNCHANGED pvars
    /\ UNCHANGED lvars

\* Line 310: u.locker.Lock(), a no-op for nilLock.
TaskLock ==
    /\ ~panicked
    /\ \E n \in 1..Len(tasks) :
          /\ tasks[n].pc = "lock"
          /\ upd.locker = "cfg" => lockHolder = 0
          /\ lockHolder' = IF upd.locker = "cfg" THEN n ELSE lockHolder
          /\ tasks' = [tasks EXCEPT ![n].pc = "apply"]
    /\ UNCHANGED <<cfg, upd, r, calls, ctxDone, sched, tickChannel, tickers,
                   once, rx, efErr, panicked, noRefresh>>
    /\ UNCHANGED pvars
    /\ UNCHANGED lvars

\* Lines 311-315: the value is coerced into the field and the lock released.
TaskApply ==
    /\ ~panicked
    /\ \E n \in 1..Len(tasks) :
          LET t     == tasks[n]
              field == upd.timings[t.group].fields[t.i]
              p     == processFieldValue(FALSE, t.vals[t.i], cfg[field])
          IN  /\ t.pc = "apply"
              /\ cfg' = [cfg EXCEPT ![field] = p.val]
              /\ lockHolder' = IF lockHolder = n THEN 0 ELSE lockHolder
              /\ IF p.err
                 THEN afterField(n, "bad value")
                 ELSE /\ tasks' = [tasks EXCEPT ![n].pc = "hash"]
                      /\ UNCHANGED <<once, efErr>>
    /\ UNCHANGED <<upd, r, calls, ctxDone, sched, tickChannel, tickers, rx,
                   panicked, noRefresh>>
    /\ UNCHANGED pvars
    /\ UNCHANGED lvars

\* Line 316: the stored checksum is replaced.
TaskHash ==
    /\ ~panicked
    /\ \E n \in 1..Len(tasks) :
          LET t == tasks[n]
          IN  /\ t.pc = "hash"
              /\ upd' = [upd EXCEPT !.timings[t.group].valueHashes[t.i] =
                                       ChecksumIEEE(t.vals[t.i])]
              /\ tasks' = [tasks EXCEPT ![n].pc = "select"]
    /\ UNCHANGED <<cfg, r, calls, ctxDone, sched, tickChannel, tickers, once,
                   lockHolder, rx, efErr, panicked, noRefresh>>
    /\ UNCHANGED pvars
    /\ UNCHANGED lvars

\* Line 323: a receiver takes the field's id from u.updates.
TaskSend ==
    /\ ~panicked
    /\ upd.updates = "open"
    /\ rx = "ready"
    /\ \E n \in 1..Len(tasks) :
          LET t == tasks[n]
          IN  /\ t.pc = "select"
              /\ rx' = fields[upd.timings[t.group].fields[t.i]].options.id
              /\ afterField(n, "")
    /\ UNCHANGED <<cfg, upd, r, calls, ctxDone, sched, tickChannel, tickers,
                   lockHolder, panicked, noRefresh>>
    /\ UNCHANGED pvars
    /\ UNCHANGED lvars

\* Line 323 when u.updates is closed: send on a closed channel.
TaskSendPanic ==
    /\ ~panicked
    /\ upd.updates = "closed"
    /\ \E n \in 1..Len(tasks) : tasks[n].pc = "select"
    /\ panicked' = TRUE
    /\ UNCHANGED <<cfg, upd, r, calls, ctxDone, sched, tickChannel, tickers,
                   tasks, once, lockHolder, rx, efErr, noRefresh>>
    /\ UNCHANGED pvars
    /\ UNCHANGED lvars

\* Line 324: the 500 microseconds pass, or the context is cancelled, with no
\* receiver having taken the id.
TaskTimeout ==
    /\ ~panicked
    /\ \E n \in 1..Len(tasks) :
          LET t == tasks[n]
          IN  /\ t.pc = "select"
              /\ \/ upd.updates # "open"
                 \/ rx # "ready"
                 \/ ctxErr(t, once)
              /\ afterField(n, "")
    /\ UNCHANGED <<cfg, upd, r, calls, ctxDone, sched, tickChannel, tickers,
                   lockHolder, rx, panicked, noRefresh>>
    /\ UNCHANGED pvars
    /\ UNCHANGED lvars

\* The caller cancels the context it gave to one of its calls.
Cancel ==
    /\ ~panicked
    /\ \E k \in 1..Len(ctxDone) :
          /\ ~ctxDone[k]
          /\ ctxDone' = [ctxDone EXCEPT ![k] = TRUE]
    /\ UNCHANGED <<cfg, upd, r, calls, sched, tickChannel, tickers, tasks,
                   once, lockHolder, rx, efErr, panicked, noRefresh>>
    /\ UNCHANGED pvars
    /\ UNCHANGED lvars

\* The caller starts a receive on the channel Refresh returned.
Listen ==
    /\ ~panicked
    /\ upd.updates = "open"
    /\ rx # "ready"
    /\ rx' = "ready"
    /\ UNCHANGED <<cfg, upd, r, calls, ctxDone, sched, tickChannel, tickers,
                   tasks, once, lockHolder, efErr, panicked, noRefresh>>
    /\ UNCHANGED pvars
    /\ UNCHANGED lvars

\* The record, the sources and the updater a successful Parse leaves when
\* every source answers "5" for every key it is asked.
RECURSIVE parsed(_, _, _)
parsed(s, i, u) ==
    IF s > Len(sources) THEN u
    ELSE IF i > Len(fields) THEN parsed(s + 1, 1, u)
    ELSE IF Applicable(fields[i], sources[s]) /\ fields[i].options.refresh # 0
         THEN parsed(s, i + 1,
                     add(u, i, ParameterName(sources[s], fields[i].nameParts).name,
                         s, "5").upd)
         ELSE parsed(s, i + 1, u)

\* Records with refreshed fields: <<number of sources, pinned source of
\* Param1, interval of Param1, interval of Param2>>.
Refreshed == { <<1, "", 1, 1>>, <<2, "g", 1, 1>>, <<1, "", 1, 0>> }

AfterParse(sc, lockable) ==
    /\ sources = [i \in 1..sc[1] |-> mockSource(i, TRUE)]
    /\ fields = << fieldInfo(<<"param1">>,
                             fieldOptions("", FALSE, sc[2], sc[3], "Param1")),
                   fieldInfo(<<"param2">>,
                             fieldOptions("", FALSE, "", sc[4], "Param2")) >>
    /\ cfg = <<5, 5>>
    /\ cfg0 = <<0, 0>>
    /\ pc = "done"
    /\ err = NoErr
    /\ sourceIdx = sc[1]
    /\ fieldsMap = EmptyMap
    /\ values = EmptyMap
    /\ pending = {}
    /\ lastVal = <<"5", "5">>
    /\ fetched = [i \in 1..sc[1] |-> i]
    /\ requested = {}
    /\ LET u == parsed(1, 1, NewUpdater)
       IN  IF empty(u) THEN r = "noRefresh" /\ upd = u
           ELSE r = "upd" /\ upd = setupLock(u, lockable)

InitRefresh ==
    /\ \E sc \in Refreshed, lockable \in BOOLEAN : AfterParse(sc, lockable)
    /\ RefresherIdle
    /\ LibraryIdle

\* The one call of Refresh that starts the scheduler.
RefreshFirst ==
    /\ Len(calls) = 0
    /\ \E ef \in BOOLEAN : Refresh(ef)

NextRefresh ==
    \/ RefreshFirst
    \/ Tick
    \/ Forward
    \/ ForwardPanic
    \/ CoordTick
    \/ CoordDone
    \/ CoordCloseTick
    \/ CoordCloseUpdates
    \/ TaskFetch
    \/ TaskCheck
    \/ TaskLock
    \/ TaskApply
    \/ TaskHash
    \/ TaskSend
    \/ TaskSendPanic
    \/ TaskTimeout
    \/ Cancel
    \/ Listen

SpecRefresh == InitRefresh /\ [][NextRefresh]_vars

\* A step of some refresh task.
TaskStep ==
    \/ TaskFetch
    \/ TaskCheck
    \/ TaskLock
    \/ TaskApply
    \/ TaskHash
    \/ TaskSend
    \/ TaskSendPanic
    \/ TaskTimeout

\* The Go scheduler runs every runnable goroutine: the coordinator takes the
\* branch of its select that stays ready and runs its deferred calls, the
\* forwarding goroutines and the tasks take their steps, and a send on a
\* closed channel panics.  The ticks, the caller's cancellation and the
\* caller's receives are not required to happen.
FairRefresh ==
    /\ SpecRefresh
    /\ WF_vars(CoordTick)
    /\ WF_vars(CoordDone)
    /\ WF_vars(CoordCloseTick)
    /\ WF_vars(CoordCloseUpdates)
    /\ WF_vars(Forward)
    /\ WF_vars(ForwardPanic)
    /\ WF_vars(TaskStep)

\* ---------------------------------------------------------------------------
\* Sequences of calls on the Refresher, in the time before the first tick.

\* Most calls made on a Refresher in a run.
MaxCalls == 2

\* The caller calls Refresh again, or for the first time.
CallRefresh ==
    /\ Len(calls) < MaxCalls
    /\ \E ef \in BOOLEAN : Refresh(ef)

\* nilRefresh.RefreshOnce (36-38) and updater.RefreshOnce (183-196), up to
\* the loop over the groups.
RefreshOnce ==
    /\ ~panicked
    /\ pc = "done" /\ err = NoErr
    /\ once.pc = "idle"
    /\ Len(calls) < MaxCalls
    /\ ctxDone' = Append(ctxDone, FALSE)
    /\ IF r = "noRefresh" \/ empty(upd)
       THEN /\ calls' = Append(calls, [op |-> "RefreshOnce", ch |-> "",
                                        ret |-> "nil"])
            /\ UNCHANGED <<upd, once>>
       ELSE /\ calls' = Append(calls, [op |-> "RefreshOnce", ch |-> "",
                                        ret |-> "running"])
            /\ upd' = processRaw(upd)
            /\ once' = [pc |-> "loop", ctx |-> Len(calls) + 1, err |-> "",
                        cancelled |-> FALSE,
                        pending |-> DOMAIN processRaw(upd).timings,
                        interval |-> 0]
    /\ UNCHANGED <<cfg, r, sched, tickChannel, tickers, tasks, lockHolder, rx,
                   efErr, panicked, noRefresh>>
    /\ UNCHANGED pvars
    /\ UNCHANGED lvars

\* updater.RefreshOnce, 198-211: the next group of the nested range (any
\* interval, then any source of it) is refreshed in the caller's goroutine;
\* the call returns on the first error or after the last group.
OnceStep ==
    /\ ~panicked
    /\ once.pc = "loop"
    /\ \A n \in 1..Len(tasks) : tasks[n].mode = "once" => ~Live(tasks[n])
    /\ IF once.err # "" \/ once.pending = {}
       THEN /\ calls' = [calls EXCEPT ![once.ctx].ret =
                            IF once.err # "" THEN once.err ELSE "nil"]
            /\ once' = NoOnce
            /\ tasks' = tasks
       ELSE /\ \E g \in once.pending :
                  /\ (\E h \in once.pending : h[1] = once.interval)
                        => g[1] = once.interval
                  /\ tasks' = Append(tasks, newTask("once", once.ctx, g))
                  /\ once' = [once EXCEPT !.pending = @ \ {g},
                                          !.interval = g[1]]
            /\ calls' = calls
    /\ UNCHANGED <<cfg, upd, r, ctxDone, sched, tickChannel, tickers,
                   lockHolder, rx, efErr, panicked, noRefresh>>
    /\ UNCHANGED pvars
    /\ UNCHANGED lvars

\* Records for the call sequences: those of Refreshed, one with two intervals
\* and one with no refreshed field.
Called == Refreshed \cup { <<1, "", 1, 2>>, <<1, "", 0, 0>> }

InitCalls ==
    /\ \E sc \in Called, lockable \in BOOLEAN : AfterParse(sc, lockable)
    /\ RefresherIdle
    /\ LibraryIdle

NextCalls ==
    \/ CallRefresh
    \/ RefreshOnce
    \/ OnceStep
    \/ NilRefreshClose
    \/ CoordDone
    \/ CoordCloseTick
    \/ CoordCloseUpdates
    \/ TaskFetch
    \/ TaskCheck
    \/ TaskLock
    \/ TaskApply
    \/ TaskHash
    \/ TaskTimeout
    \/ Cancel

SpecCalls == InitCalls /\ [][NextCalls]_vars

\* The Go scheduler runs every runnable goroutine: the goroutines of the no-op
\* refresher, the coordinator and its deferred calls; RefreshOnce runs in the
\* caller's goroutine and its sources answer.  The caller's calls and
\* cancellations are not required to happen.
FairCalls ==
    /\ SpecCalls
    /\ WF_vars(NilRefreshClose)
    /\ WF_vars(CoordDone)
    /\ WF_vars(CoordCloseTick)
    /\ WF_vars(CoordCloseUpdates)
    /\ WF_vars(OnceStep)
    /\ WF_vars(TaskFetch \/ TaskCheck \/ TaskLock \/ TaskApply \/ TaskHash
                 \/ TaskTimeout)


\* ------------------------------------------------------------------------
\* extractFields (fields.go): the walk over the record type

\* Deepest nesting of record fields in the record types walked.
MaxDepth == 6

\* A sky tag, already cut at its commas: the key and the option parts, each
\* option cut at its first colon (<<prop>> or <<prop, val>>).
Tag(key, opts) == [key |-> key, opts |-> opts]

\* The tag `sky:""`, and what Tag.Lookup yields for a field without the tag.
EmptyTag == Tag("", <<>>)

\* The tag `sky:"-"`.
IgnoreTag == Tag("-", <<>>)

\* The zero fieldOptions.
ZeroOptions ==
    [defaultValue |-> "", optional |-> FALSE, flatten |-> FALSE, source |-> ""]

\* fieldOptions.inherit
inherit(o, parent) == [o EXCEPT !.source = parent.source]

\* The loop of parseTag over the option parts, from part i on.
RECURSIVE parseOptions(_, _, _)
parseOptions(opts, i, f) ==
    IF i > Len(opts) THEN [f |-> f, err |-> FALSE]
    ELSE LET vals == opts[i]
             prop == vals[1]
         IN  IF Len(vals) = 1
             THEN parseOptions(opts, i + 1,
                     IF prop = "optional" THEN [f EXCEPT !.optional = TRUE]
                     ELSE IF prop = "flatten" THEN [f EXCEPT !.flatten = TRUE]
                     ELSE f)
             ELSE IF vals[2] = "" THEN [f |-> f, err |-> TRUE]
             ELSE parseOptions(opts, i + 1,
                     IF prop = "default" THEN [f EXCEPT !.defaultValue = vals[2]]
                     ELSE IF prop = "source" THEN [f EXCEPT !.source = vals[2]]
                     ELSE f)

\* parseTag: the empty tag returns before the parent's options are inherited.
parseTag(tag, parentOptions) ==
    IF tag = EmptyTag
    THEN [key |-> "", f |-> ZeroOptions, err |-> FALSE]
    ELSE LET p == parseOptions(tag.opts, 1, inherit(ZeroOptions, parentOptions))
         IN  [key |-> tag.key, f |-> p.f, err |-> p.err]

\* A []string: the backing array (an index of heap, 0 for none), the length
\* and the capacity.
Slice(arr, len, cap) == [arr |-> arr, len |-> len, cap |-> cap]

\* []string{}
EmptySlice == Slice(0, 0, 0)

\* The elements of the slice.
Contents(h, sl) == [j \in 1..sl.len |-> h[sl.arr][j]]

\* The capacity runtime.growslice gives a full []string that grows by one.
Grow(cap) == IF cap = 0 THEN 1 ELSE 2 * cap

\* append(sl, x): in place when the capacity allows, else into a new array.
append(h, sl, x) ==
    IF sl.len < sl.cap
    THEN [heap  |-> [h EXCEPT ![sl.arr][sl.len + 1] = x],
          slice |-> [sl EXCEPT !.len = @ + 1]]
    ELSE LET cap == Grow(sl.cap)
             old == Contents(h, sl)
         IN  [heap  |-> Append(h, [j \in 1..cap |->
                                     IF j <= sl.len THEN old[j]
                                     ELSE IF j = sl.len + 1 THEN x ELSE ""]),
              slice |-> Slice(Len(h) + 1, sl.len + 1, cap)]

\* A field declaration of a record type; inner is the record type of a field
\* of struct kind.
Decl(name, tagged, tag, anonymous, kind, inner) ==
    [name |-> name, tagged |-> tagged, tag |-> tag, anonymous |-> anonymous,
     kind |-> kind, inner |-> inner]

\* extractFields on the record type rec found at position pos of the target,
\* from field i on.  acc = [fields, heap, err].
RECURSIVE extractFields(_, _, _, _, _, _, _)
extractFields(wu, prefix, rec, parentOptions, pos, i, acc) ==
    IF i > Len(rec) \/ acc.err THEN acc
    ELSE LET d    == rec[i]
             tags == IF d.tagged THEN d.tag ELSE EmptyTag
             next(a) == extractFields(wu, prefix, rec, parentOptions, pos, i + 1, a)
         IN  IF ~d.tagged /\ ~wu THEN next(acc)
             ELSE IF tags = IgnoreTag THEN next(acc)
             ELSE LET p == parseTag(tags, parentOptions)
                  IN  IF p.err THEN [acc EXCEPT !.err = TRUE]
                      ELSE LET keyPart  == IF p.key = "" THEN d.name ELSE p.key
                               fieldKey == append(acc.heap, prefix, keyPart)
                           IN  IF d.kind = "struct"
                               THEN LET innerPrefix ==
                                           IF d.anonymous \/ p.f.flatten
                                           THEN prefix ELSE fieldKey.slice
                                    IN  next(extractFields(wu, innerPrefix, d.inner,
                                                p.f, Append(pos, i), 1,
                                                [acc EXCEPT !.heap = fieldKey.heap]))
                               ELSE next([acc EXCEPT
                                            !.heap = fieldKey.heap,
                                            !.fields = Append(@,
                                               [nameParts   |-> fieldKey.slice,
                                                structField |-> Append(pos, i),
                                                options     |-> p.f])])

\* The ways the model tags a nested record field: plain, flattened, embedded,
\* pinned to a source.
Nested(k, inner) ==
    CASE k = 1 -> Decl("Inner", TRUE, Tag("in", <<>>), FALSE, "struct", inner)
      [] k = 2 -> Decl("Inner", TRUE, Tag("in", << <<"flatten">> >>), FALSE, "struct", inner)
      [] k = 3 -> Decl("Emb", TRUE, Tag("emb", <<>>), TRUE, "struct", inner)
      [] k = 4 -> Decl("Inner", TRUE, Tag("in", << <<"source", "g">> >>), FALSE, "struct", inner)

NestedKinds == 1..4

\* The ways the model tags the first leaf: the empty tag, no tag, a key with
\* an option, a key with its own source, a source option without a value.
LeafA(k) ==
    CASE k = 1 -> Decl("LeafA", TRUE, EmptyTag, FALSE, "int", <<>>)
      [] k = 2 -> Decl("LeafA", FALSE, EmptyTag, FALSE, "int", <<>>)
      [] k = 3 -> Decl("LeafA", TRUE, Tag("a", << <<"optional">> >>), FALSE, "int", <<>>)
      [] k = 4 -> Decl("LeafA", TRUE, Tag("a", << <<"source", "r">> >>), FALSE, "int", <<>>)
      [] k = 5 -> Decl("LeafA", TRUE, Tag("a", << <<"source", "">> >>), FALSE, "int", <<>>)

LeafKinds == 1..5

LeafB == Decl("LeafB", TRUE, Tag("b", <<>>), FALSE, "int", <<>>)

Sib == Decl("Sib", TRUE, Tag("s", <<>>), FALSE, "int", <<>>)

\* Most nested record fields of a record type that are not plain ones.
MaxSpecial == 2

\* The record type of a chain of nested record fields, outermost first, each
\* followed by a sibling leaf, around two sibling leaves.
RECURSIVE Record(_, _, _)
Record(chain, i, a) ==
    IF i > Len(chain) THEN <<LeafA(a), LeafB>>
    ELSE <<Nested(chain[i], Record(chain, i + 1, a)), Sib>>

Chains ==
    UNION { { c \in [1..n -> NestedKinds] :
                Cardinality({i \in 1..n : c[i] # 1}) <= MaxSpecial } :
            n \in 0..MaxDepth }

\* Nothing is being bound or refreshed.
NotBinding ==
    /\ fields = <<>>
    /\ sources = <<>>
    /\ cfg = <<>>
    /\ cfg0 = <<>>
    /\ pc = "idle"
    /\ err = NoErr
    /\ sourceIdx = 0
    /\ fieldsMap = EmptyMap
    /\ values = EmptyMap
    /\ pending = {}
    /\ upd = NewUpdater
    /\ r = "nil"
    /\ lastVal = <<>>
    /\ fetched = <<>>
    /\ requested = {}
    /\ RefresherIdle

InitExtract ==
    /\ \E chain \in Chains, a \in LeafKinds : target = Record(chain, 1, a)
    /\ withUntagged \in BOOLEAN
    /\ heap = <<>>
    /\ extracted = <<>>
    /\ xpc = "start"
    /\ MapIdle
    /\ TickerIdle
    /\ NotBinding

\* The call extractFields(withUntagged, nil, cfg, fieldOptions{}) of Parse.
Extract ==
    /\ xpc = "start"
    /\ LET e == extractFields(withUntagged, EmptySlice, target, ZeroOptions,
                              <<>>, 1, [fields |-> <<>>, heap |-> <<>>, err |-> FALSE])
       IN  /\ heap' = e.heap
           /\ extracted' = e.fields
           /\ xpc' = IF e.err THEN "failed" ELSE "extracted"
    /\ UNCHANGED <<target, withUntagged>>
    /\ UNCHANGED <<mvars, tvars>>
    /\ UNCHANGED <<cfg, upd, r>>
    /\ UNCHANGED pvars
    /\ UNCHANGED rvars

\* The loop of Parse formatting the keys of one source (parse.go 123-131),
\* from field i on: makeParameterName rewrites the parts in their array.
RECURSIVE formatKeys(_, _, _)
formatKeys(source, i, h) ==
    IF i > Len(extracted) THEN h
    ELSE IF Applicable(extracted[i], source)
         THEN LET sl == extracted[i].nameParts
                  pn == ParameterName(source, Contents(h, sl))
              IN  formatKeys(source, i + 1,
                     [h EXCEPT ![sl.arr] =
                        [j \in 1..Len(@) |-> IF j <= sl.len THEN pn.parts[j] ELSE @[j]]])
         ELSE formatKeys(source, i + 1, h)

\* The keys of the extracted fields are formatted for a source.
FormatKeys ==
    /\ xpc \in {"extracted", "formatted"}
    /\ \E s \in 1..2 : heap' = formatKeys(mockSource(s, TRUE), 1, heap)
    /\ xpc' = "formatted"
    /\ UNCHANGED <<target, withUntagged, extracted>>
    /\ UNCHANGED <<mvars, tvars>>
    /\ UNCHANGED <<cfg, upd, r>>
    /\ UNCHANGED pvars
    /\ UNCHANGED rvars

NextExtract ==
    \/ Extract
    \/ FormatKeys

SpecExtract == InitExtract /\ [][NextExtract]_vars

\* ------------------------------------------------------------------------
\* processFieldValue on a field of kind map[string]string (fields.go)

\* Longest raw value coerced into a map.
MaxLen == 5

\* A raw value is a sequence of characters.
Chars == {"k", "v", ":", ";", " "}

RawStrings == UNION { [1..n -> Chars] : n \in 0..MaxLen }

\* strings.Split(str, sep) for a one-character separator.
RECURSIVE Split(_, _)
Split(str, sep) ==
    LET at == {j \in 1..Len(str) : str[j] = sep}
    IN  IF at = {} THEN <<str>>
        ELSE LET j == CHOOSE j \in at : \A k \in at : j <= k
             IN  <<SubSeq(str, 1, j - 1)>> \o Split(SubSeq(str, j + 1, Len(str)), sep)

\* strings.TrimSpace
RECURSIVE TrimSpace(_)
TrimSpace(str) ==
    IF str = <<>> THEN str
    ELSE IF str[1] = " " THEN TrimSpace(Tail(str))
    ELSE IF str[Len(str)] = " " THEN TrimSpace(SubSeq(str, 1, Len(str) - 1))
    ELSE str

\* The loop over the pairs (fields.go, case reflect.Map), from pair i on: a
\* pair is cut at every colon and must give two pieces; a key and a value of
\* string kind are set as they are.
RECURSIVE loadPairs(_, _, _)
loadPairs(pairs, i, mp) ==
    IF i > Len(pairs) THEN [err |-> FALSE, mp |-> mp]
    ELSE LET kvpair == Split(pairs[i], ":")
         IN  IF Len(kvpair) # 2 THEN [err |-> TRUE, mp |-> mp]
             ELSE loadPairs(pairs, i + 1, (kvpair[1] :> kvpair[2]) @@ mp)

\* processFieldValue, case reflect.Map.
processMapValue(value) ==
    IF Len(TrimSpace(value)) # 0
    THEN loadPairs(Split(value, ";"), 1, EmptyMap)
    ELSE [err |-> FALSE, mp |-> EmptyMap]

InitMap ==
    /\ mapValue \in RawStrings
    /\ mapField = NilMap
    /\ mapErr = FALSE
    /\ mpc = "start"
    /\ WalkIdle
    /\ TickerIdle
    /\ NotBinding

\* processFieldValue(false, value, field) on a nil map[string]string: the
\* field is set only when every pair was loaded.
ProcessMap ==
    /\ mpc = "start"
    /\ LET p == processMapValue(mapValue)
       IN  /\ mapErr' = p.err
           /\ mapField' = IF p.err THEN mapField ELSE [isNil |-> FALSE, mp |-> p.mp]
    /\ mpc' = "done"
    /\ UNCHANGED mapValue
    /\ UNCHANGED <<wvars, tvars>>
    /\ UNCHANGED <<cfg, upd, r>>
    /\ UNCHANGED pvars
    /\ UNCHANGED rvars

NextMap == ProcessMap

SpecMap == InitMap /\ [][NextMap]_vars

\* ------------------------------------------------------------------------
\* jitterTickerClock.NewTicker (jitterticker.go)

\* Longest interval, in nanoseconds, a ticker is created for.
MaxDuration == 25

\* Latest reading of the clock, in nanoseconds.
MaxNano == 4

InitTicker ==
    /\ duration \in 1..MaxDuration
    /\ unixNano \in 0..MaxNano
    /\ period = 0
    /\ tpc = "start"
    /\ WalkIdle
    /\ MapIdle
    /\ NotBinding

\* NewTicker(d): the jitter is the clock's reading modulo d/10; an integer
\* division by zero is a run-time panic.
NewTicker ==
    /\ tpc = "start"
    /\ IF duration \div 10 = 0
       THEN tpc' = "panicked" /\ period' = period
       ELSE /\ tpc' = "ticking"
            /\ period' = duration + (unixNano % (duration \div 10))
    /\ UNCHANGED <<duration, unixNano>>
    /\ UNCHANGED <<wvars, mvars>>
    /\ UNCHANGED <<cfg, upd, r>>
    /\ UNCHANGED pvars
    /\ UNCHANGED rvars

NextTicker == NewTicker

SpecTicker == InitTicker /\ [][NextTicker]_vars

\* ------------------------------------------------------------------------
\* Parse followed by the setup of the scheduler

\* updater.processRaw, as the first Refresh or RefreshOnce on the updater
\* Parse returned runs it.
Setup ==
    /\ pc = "done"
    /\ err = NoErr
    /\ r = "upd"
    /\ upd' = processRaw(upd)
    /\ pc' = "setup"
    /\ UNCHANGED <<fields, sources, cfg, cfg0, err, sourceIdx, fieldsMap,
                   values, pending, r, lastVal, fetched, requested>>
    /\ UNCHANGED rvars
    /\ UNCHANGED lvars

NextSetup ==
    \/ ParseStart
    \/ ParseDefaults
    \/ ParseFetch
    \/ ParseField
    \/ ParseFinish
    \/ Setup

SpecSetup == Init /\ [][NextSetup]_vars

\* ------------------------------------------------------------------------
\* Claims about the binding pass

Succeeded == pc = "done" /\ err = NoErr

\* The field the error's key stands for in the current fieldsMap.
ErrField == fieldsMap[err.key]

ParameterNotFound == pc = "done" /\ err.name = "ErrParameterNotFound"

\* A later field formats to the same key for a source both are asked of: the
\* later field takes this field's place in that source's fieldsMap.
Shadowed(i) ==
    \E j \in FieldIdx, s \in 1..Len(sources) :
       /\ j > i
       /\ Applicable(fields[i], sources[s])
       /\ Applicable(fields[j], sources[s])
       /\ ParameterName(sources[s], fields[i].nameParts).name
            = ParameterName(sources[s], fields[j].nameParts).name

\* C1: after a successful Parse every field with no pinned source holds the
\* (coerced) value returned by the last source of the list that returned a
\* value for the field's key.
C1_LastSourceWins ==
    Succeeded =>
        \A i \in FieldIdx :
            (fields[i].options.source = "" /\ lastVal[i] # NoValue)
                => cfg[i] = ParseInt(lastVal[i]).val

\* C2: a field pinned to a source is requested from that source only, and when
\* that source returns no value for it while it is zero and not optional, Parse
\* does not succeed; a missing pinned parameter is reported against its source.
C2_PinnedOnlyItsSource ==
    /\ \A p \in requested :
          fields[p[2]].options.source # ""
             => sources[p[1]].id = fields[p[2]].options.source
    /\ Succeeded =>
          \A i \in FieldIdx :
             (fields[i].options.source # "" /\ ~fields[i].options.optional
                 /\ lastVal[i] = NoValue) => ~IsZero(cfg[i])
    /\ (ParameterNotFound /\ fields[ErrField].options.source # "")
          => err.src = fields[ErrField].options.source

\* C3: a field that is not optional, has no default, is zero before Parse and
\* is returned by no applicable source makes Parse fail; marked optional it
\* never makes Parse fail and stays zero.
C3_RequiredOrOptional ==
    /\ Succeeded =>
          \A i \in FieldIdx :
             ~(/\ ~fields[i].options.optional
               /\ fields[i].options.defaultValue = ""
               /\ IsZero(cfg0[i])
               /\ lastVal[i] = NoValue)
    /\ ParameterNotFound => ~fields[ErrField].options.optional
    /\ Succeeded =>
          \A i \in FieldIdx :
             (/\ fields[i].options.optional
              /\ fields[i].options.defaultValue = ""
              /\ IsZero(cfg0[i])
              /\ lastVal[i] = NoValue) => IsZero(cfg[i])

\* No two fields format to one key for a source both are asked of.
NoCollision == \A i \in FieldIdx : ~Shadowed(i)

\* C4: Parse reports ErrParameterNotFound for an unpinned field only when no
\* source of the list returned a value for the field's key (stated for records
\* whose fields have distinct keys, where a field's key is the field's alone).
C4_NotFoundOnlyIfAbsentEverywhere ==
    (NoCollision /\ ParameterNotFound /\ fields[ErrField].options.source = "")
        => lastVal[ErrField] = NoValue

\* C5: the defaults are in place before the first fetch; a field with a default
\* and no source value ends with the default; a field that was non-zero before
\* Parse is not touched by its default; a value returned by a source overwrites
\* the default.
C5_Defaults ==
    /\ (pc = "source" /\ fetched = <<>>) =>
          \A i \in FieldIdx :
             cfg[i] = IF fields[i].options.defaultValue # "" /\ IsZero(cfg0[i])
                      THEN ParseInt(fields[i].options.defaultValue).val
                      ELSE cfg0[i]
    /\ Succeeded =>
          \A i \in FieldIdx :
             (fields[i].options.defaultValue # "" /\ IsZero(cfg0[i])
                 /\ lastVal[i] = NoValue)
                => cfg[i] = ParseInt(fields[i].options.defaultValue).val
    /\ \A i \in FieldIdx :
          (~IsZero(cfg0[i]) /\ lastVal[i] = NoValue) => cfg[i] = cfg0[i]
    /\ Succeeded =>
          \A i \in FieldIdx :
             (fields[i].options.defaultValue # "" /\ lastVal[i] # NoValue)
                => cfg[i] = ParseInt(lastVal[i]).val

\* ------------------------------------------------------------------------
\* Claims about the refresher

\* The groups the fields registered with the updater form.
RegisteredGroups == DOMAIN processRaw(upd).timings

\* C6: on a refresher with registered fields, every RefreshOnce call that
\* returned nil has fetched every registered group under that call, and every
\* Refresh call, also one made after a RefreshOnce, is served by the updater's
\* own scheduler.
C6_RegistrationsSurvive ==
    r = "upd" =>
       \A k \in 1..Len(calls) :
          /\ (calls[k].op = "RefreshOnce" /\ calls[k].ret = "nil") =>
                \A g \in RegisteredGroups :
                   \E n \in 1..Len(tasks) :
                      tasks[n].ctx = k /\ tasks[n].group = g
          /\ calls[k].op = "Refresh" => calls[k].ch = "upd"

\* The field, the stored fingerprint and the returned value task n is at.
TaskField(n) == upd.timings[tasks[n].group].fields[tasks[n].i]

StoredHash(n) == upd.timings[tasks[n].group].valueHashes[tasks[n].i]

Returned(n) == tasks[n].vals[tasks[n].i]

\* Task n takes a step.
Steps(n) == tasks'[n] # tasks[n]

\* Task n compares a returned value with the stored fingerprint.
Comparing(n) == tasks[n].pc = "check" /\ Returned(n) # NoValue

\* An equal fingerprint: nothing is written, locked or sent, and the task is
\* at its next field.
SameFingerprintSkips(n) ==
    (Comparing(n) /\ ChecksumIEEE(Returned(n)) = StoredHash(n) /\ Steps(n)) =>
       /\ cfg' = cfg
       /\ lockHolder' = lockHolder
       /\ rx' = rx
       /\ tasks'[n].pc \in {"check", "done"}
       /\ tasks'[n].pc = "check" => tasks'[n].i = tasks[n].i + 1

\* A different fingerprint: the task goes for the lock.
OtherFingerprintLocks(n) ==
    (Comparing(n) /\ ChecksumIEEE(Returned(n)) # StoredHash(n) /\ Steps(n)) =>
       tasks'[n].pc = "lock"

\* A notification is the id of the field of a task that was at its send.
OnlyOwnId ==
    (rx' # rx /\ rx' # "ready") =>
       \E n \in 1..Len(tasks) :
          /\ tasks[n].pc = "select"
          /\ Steps(n)
          /\ rx' = fields[TaskField(n)].options.id

\* C7 as stated: a value with a different fingerprint always mutates the field
\* and, whenever a receiver is ready, is notified with the field's id.
C7_ChangeDetection ==
    [][ /\ OnlyOwnId
        /\ \A n \in 1..Len(tasks) :
             /\ SameFingerprintSkips(n)
             /\ OtherFingerprintLocks(n)
             /\ (tasks[n].pc = "apply" /\ Steps(n)) =>
                   /\ cfg'[TaskField(n)] = ParseInt(Returned(n)).val
                   /\ tasks'[n].pc = "hash"
             /\ (tasks[n].pc = "select" /\ rx = "ready" /\ Steps(n)) =>
                   rx' = fields[TaskField(n)].options.id ]_vars

\* C7, amended: a value with an equal fingerprint causes no mutation, no lock
\* acquisition and no notification; a value with a different fingerprint that
\* coerces to the field's type is written to the field, and its field's id is
\* sent exactly once when a receiver is ready and the context is not
\* cancelled; a value that does not coerce leaves the field as it was, is
\* not notified and is handed to the caller's error function.
C7_ChangeDetectionCoercible ==
    [][ /\ OnlyOwnId
        /\ \A n \in 1..Len(tasks) :
             /\ SameFingerprintSkips(n)
             /\ OtherFingerprintLocks(n)
             /\ (tasks[n].pc = "apply" /\ Steps(n)) =>
                   IF ParseInt(Returned(n)).err
                   THEN /\ cfg' = cfg
                        /\ rx' = rx
                        /\ tasks'[n].pc \in {"check", "done"}
                        /\ sched.ef => efErr' = "bad value"
                   ELSE /\ cfg' = [cfg EXCEPT ![TaskField(n)] =
                                      ParseInt(Returned(n)).val]
                        /\ tasks'[n].pc = "hash"
             /\ (tasks[n].pc = "select" /\ Steps(n)) =>
                   /\ tasks'[n].pc \in {"check", "done"}
                   /\ (rx = "ready" /\ ~ctxDone[tasks[n].ctx]) =>
                         rx' = fields[TaskField(n)].options.id ]_vars

\* A changed value of Param1 was written and its id received.
C7_Notified == rx = "Param1" /\ cfg[1] = 0 /\ ~ctxDone[1]

\* The context given to the Refresh that started the scheduler is cancelled.
Cancelled == sched.pc # "none" /\ ctxDone[sched.ctx]

\* C8: once the context of the running Refresh is cancelled, no field of the
\* record changes any more.
C8_NoMutationAfterCancel == [][Cancelled => cfg' = cfg]_vars

\* C9: no two tasks started by ticks for one group are running at once.
C9_NoOverlap ==
    \A m, n \in 1..Len(tasks) :
       (m < n /\ tasks[m].mode = "tick" /\ tasks[n].mode = "tick"
          /\ Live(tasks[m]) /\ Live(tasks[n]))
         => tasks[m].group # tasks[n].group

\* C10: once the context given to Refresh is cancelled the channel the call
\* returned is eventually closed, and the coordinator never comes to close a
\* channel that is closed already.
C10_ClosedOnce ==
    /\ Cancelled ~> (upd.updates = "closed")
    /\ [](sched.pc = "closeUpdates" => upd.updates = "open")

\* The coordinator has returned and run its deferred calls.
CoordinatorExited == sched.pc = "exited"

\* Every refresh task has returned.
TasksExited == \A n \in 1..Len(tasks) : ~Live(tasks[n])

\* Every forwarding goroutine has left its range over the ticker's channel
\* (131-136).  The loop ends only when that channel is closed; Ticker.Stop
\* (153) does not close it, and nothing else does.
ForwardersExited == \A d \in DOMAIN tickers : tickers[d].prod = "exited"

\* C11: once the context of the running Refresh is cancelled, the coordinator,
\* every forwarding goroutine and every refresh task eventually exit (stated
\* for the runs in which no goroutine panics).
C11_AllTasksExit ==
    Cancelled ~>
       (panicked \/ (CoordinatorExited /\ TasksExited /\ ForwardersExited))

\* C12: when no receiver is ever ready on the notification output, a refresh
\* task that has come to its send abandons it and goes on: it does not stay
\* at the send.
C12_SendAbandoned ==
    [](rx # "ready") =>
       \A n \in 1..MaxFetched :
          (n <= Len(tasks) /\ tasks[n].pc = "select")
             ~> (n <= Len(tasks) /\ tasks[n].pc # "select")

\* The error the next step of task n meets ("": none): a failed fetch is the
\* only step from the fetch to the return.
ErrorMet(n) ==
    IF tasks[n].pc = "fetch"
    THEN IF tasks'[n].pc = "done" THEN "source error" ELSE ""
    ELSE IF tasks[n].pc = "check" /\ Returned(n) = NoValue
         THEN "ErrMissingKeyOnRefresh"
         ELSE IF tasks[n].pc = "apply" /\ ParseInt(Returned(n)).err
              THEN "bad value"
              ELSE ""

\* A tick forwarded to the coordinator is waiting to be taken.
TickWaiting == \E d \in DOMAIN tickers : tickers[d].prod = "send"

\* C13: in continuous mode a failed fetch, a missing key and a failed coercion
\* are handed to the caller's error function (and dropped when there is none),
\* leave the coordinator, the tickers and the tick channel as they are, and,
\* for a missing key or a failed coercion under a context not cancelled, the
\* task goes on to the next field of its group; a coordinator in its select
\* can always take a waiting tick, and takes it unless the context is
\* cancelled.
C13_ErrorsDoNotStop ==
    /\ [][ \A n \in 1..Len(tasks) :
             (Steps(n) /\ ErrorMet(n) # "") =>
                /\ efErr' = IF sched.ef THEN ErrorMet(n) ELSE efErr
                /\ sched' = sched
                /\ tickers' = tickers
                /\ tickChannel' = tickChannel
                /\ (tasks[n].pc # "fetch" /\ ~ctxDone[tasks[n].ctx]) =>
                      IF tasks[n].i = Len(tasks[n].vals)
                      THEN tasks'[n].pc = "done"
                      ELSE /\ tasks'[n].pc = "check"
                           /\ tasks'[n].i = tasks[n].i + 1 ]_vars
    /\ []((sched.pc = "select" /\ ~panicked /\ TickWaiting) => ENABLED CoordTick)
    /\ (sched.pc = "select" /\ TickWaiting) ~> (~TickWaiting \/ Cancelled)

\* A task met a missing key at the first field of its group and is at the
\* second one, with the coordinator still in its select.
C13_WentOn ==
    /\ efErr = "ErrMissingKeyOnRefresh"
    /\ sched.pc = "select"
    /\ ~ctxDone[1]
    /\ \E n \in 1..Len(tasks) : tasks[n].pc = "check" /\ tasks[n].i = 2

\* C14: the first error a task of RefreshOnce meets becomes the error of the
\* call; from then on no field changes, no task is started and no task takes a
\* step, and the call returns that error; a call that met no error returns
\* nil.
C14_FirstError ==
    [][ /\ \A n \in 1..Len(tasks) :
             (tasks[n].mode = "once" /\ Steps(n) /\ ErrorMet(n) # "") =>
                /\ once.err = ""
                /\ once'.err = ErrorMet(n)
        /\ once.err # "" =>
             /\ cfg' = cfg
             /\ tasks' = tasks
             /\ \/ once' = once
                \/ once' = NoOnce /\ calls'[once.ctx].ret = once.err
        /\ (once.pc = "loop" /\ once.err = "" /\ once'.pc = "idle") =>
             calls'[once.ctx].ret = "nil" ]_vars

\* A RefreshOnce returned an error with a group of the record not fetched.
C14_ShortCircuited ==
    \E k \in 1..Len(calls) :
       /\ calls[k].op = "RefreshOnce"
       /\ calls[k].ret \notin {"nil", "running"}
       /\ Len(tasks) < Cardinality(DOMAIN upd.timings)

\* The record exposes Lock and Unlock.
Lockable == upd.locker = "cfg"

\* C15: for a record with Lock and Unlock, the task holding the lock is the one
\* task between its Lock and its Unlock (so no task holds it at its fetch or
\* at its send, and no two tasks are inside it), a field changes only by a
\* step of the holder, and the step that follows the Lock releases it,
\* whether the coercion succeeds or fails.
C15_MutationUnderLock ==
    /\ [](Lockable =>
            /\ lockHolder \in 0..Len(tasks)
            /\ \A n \in 1..Len(tasks) : tasks[n].pc = "apply" <=> lockHolder = n)
    /\ [][ Lockable =>
             /\ cfg' # cfg => (lockHolder # 0 /\ Steps(lockHolder))
             /\ \A n \in 1..Len(tasks) :
                  (tasks[n].pc = "apply" /\ Steps(n)) => lockHolder' = 0 ]_vars

\* A task holds the lock with a value that fails to coerce while another task
\* waits for the lock.
C15_Contended ==
    /\ Lockable
    /\ lockHolder # 0
    /\ ParseInt(Returned(lockHolder)).err
    /\ \E n \in 1..Len(tasks) : tasks[n].pc = "lock"

\* Parse returned the no-op refresher.
NoOp == r = "noRefresh"

Binds(key) ==
    /\ pc = "process"
    /\ key \in pending
    /\ pending' = pending \ {key}
    /\ values[key] # NoValue
    /\ ~processFieldValue(FALSE, values[key], cfg[fieldsMap[key]]).err

NotRefreshable == pc = "done" /\ err.name = "ErrSourceNotRefreshable"

\* C17: when the bind loop gives a field with a refresh interval a value from
\* a source that is not refreshable, Parse ends at that step with
\* ErrSourceNotRefreshable naming the source, registers nothing and returns no
\* refresher; so every registration names a refreshable source and a Parse
\* that ended with this error has returned no refresher.
C17_NotRefreshableFailsParse ==
    /\ [][ \A key \in pending :
             (/\ Binds(key)
              /\ fields[fieldsMap[key]].options.refresh # 0
              /\ ~sources[sourceIdx].refreshable)
             => /\ pc' = "done"
                /\ err' = Err("ErrSourceNotRefreshable", sources[sourceIdx].id, key)
                /\ upd' = upd
                /\ r' = "nil" ]_vars
    /\ [](\A j \in 1..Len(upd.raw) : sources[upd.raw[j].source].refreshable)
    /\ [](NotRefreshable => r = "nil")

\* Parse failed on the second source of the list, the one that is not
\* refreshable, after the first source's value was registered.
C17_SecondSourceNotRefreshable ==
    /\ NotRefreshable
    /\ sourceIdx = 2
    /\ Len(upd.raw) = 1
    /\ r = "nil"

\* The registrations of field i in the raw list.
Registrations(i) == {j \in 1..Len(upd.raw) : upd.raw[j].field = i}

Registered(i) == Registrations(i) # {}

RegisteredFields == {i \in FieldIdx : Registered(i)}

Refreshing(i) == fields[i].options.refresh # 0

\* C18 as stated: after a successful Parse every field with a refresh interval
\* is registered (for records whose fields have distinct keys).
C18_EveryRefreshFieldRegistered ==
    (Succeeded /\ NoCollision) => \A i \in FieldIdx : Refreshing(i) => Registered(i)

\* C18, amended: a field is registered when, and only when, the bind loop
\* gives it a value from a source and the field has a refresh interval; the
\* registration is the field's only one and carries the key, the source and
\* the fingerprint of that value, the last one given.  After a successful
\* Parse the registered fields have a refresh interval and were returned a
\* value by a source, and a field with a refresh interval and a key of its own
\* is registered exactly if some source returned a value for its key; a field
\* satisfied by its default, its initial value or by being optional is not.
C18_RegisteredWhenValued ==
    /\ [][ /\ \A key \in pending :
                (/\ Binds(key)
                 /\ Refreshing(fieldsMap[key])
                 /\ sources[sourceIdx].refreshable)
                => /\ RegisteredFields' = RegisteredFields \cup {fieldsMap[key]}
                   /\ \E j \in 1..Len(upd'.raw) :
                         upd'.raw[j] = [field |-> fieldsMap[key], key |-> key,
                                        source |-> sourceIdx,
                                        valueHash |-> ChecksumIEEE(values[key])]
           /\ RegisteredFields' # RegisteredFields =>
                \E key \in pending : Binds(key) /\ Refreshing(fieldsMap[key]) ]_vars
    /\ [](\A i \in FieldIdx : Cardinality(Registrations(i)) <= 1)
    /\ [](Succeeded => \A i \in FieldIdx :
            /\ Registered(i) => (Refreshing(i) /\ lastVal[i] # NoValue)
            /\ (Refreshing(i) /\ ~Shadowed(i)) =>
                  IF lastVal[i] = NoValue THEN ~Registered(i)
                  ELSE \E j \in Registrations(i) :
                          upd.raw[j].valueHash = ChecksumIEEE(lastVal[i]))

\* Parse succeeded: Param2 was given a value by a source and is registered,
\* Param1 has a refresh interval, holds its default and is not registered.
C18_DefaultNotRegistered ==
    /\ Succeeded
    /\ NoCollision
    /\ Refreshing(1) /\ ~Registered(1)
    /\ fields[1].options.defaultValue = "7" /\ cfg[1] = 7
    /\ Registered(2)
    /\ r = "upd"

\* Field i pins a source id that no source of the list has.
Unmatched(i) ==
    /\ fields[i].options.source # ""
    /\ \A j \in 1..Len(sources) : sources[j].id # fields[i].options.source

\* Nothing has happened to the record or the sources, and no refresher exists.
Untouched ==
    /\ cfg = cfg0
    /\ fetched = <<>>
    /\ requested = {}
    /\ upd = NewUpdater
    /\ r = "nil"

\* C19: with an empty source list Parse ends with ErrNoSource; with sources
\* and a field whose pinned id none of them has it ends with
\* ErrSourceNotFound naming a pinned id that is not in the list; in both cases
\* no field has changed, no source was fetched and no refresher is returned,
\* and Parse goes past its first step only when neither is the case.
C19_FailsBeforeAnyEffect ==
    /\ (pc = "done" /\ Len(sources) = 0) =>
          (err = Err("ErrNoSource", "", "") /\ Untouched)
    /\ (pc = "done" /\ Len(sources) > 0 /\ \E i \in FieldIdx : Unmatched(i)) =>
          /\ err.name = "ErrSourceNotFound"
          /\ \E i \in FieldIdx : Unmatched(i) /\ err.src = fields[i].options.source
          /\ Untouched
    /\ pc \notin {"start", "done"} =>
          (Len(sources) > 0 /\ \A i \in FieldIdx : ~Unmatched(i))
    /\ (pc = "done" /\ err.name \in {"ErrNoSource", "ErrSourceNotFound"}) => Untouched

\* Parse failed with ErrSourceNotFound on a list of two sources; Param1 is
\* zero and its default was not applied.
C19_NotFoundBeforeDefault ==
    /\ pc = "done"
    /\ err.name = "ErrSourceNotFound"
    /\ Len(sources) = 2
    /\ fields[1].options.defaultValue = "7"
    /\ cfg0[1] = 0 /\ cfg[1] = 0
    /\ fetched = <<>>

Failed == pc = "done" /\ err # NoErr

BindingErrors ==
    {"ErrNoSource", "ErrSourceNotFound", "ErrBadDefaultFieldValue",
     "ErrGetParameters", "ErrParameterNotFound", "ErrBadFieldValue",
     "ErrSourceNotRefreshable"}

\* The errors of the steps that precede the loop over the sources.
BeforeFetch == {"ErrNoSource", "ErrSourceNotFound", "ErrBadDefaultFieldValue"}

\* C20: the step that meets an error is Parse's last one: the error is one of
\* the binding errors, no refresher is returned, and nothing can follow (no
\* fetch, no write).  The sources fetched are those up to the failing one,
\* each once (none when Parse failed before the loop over the sources).  The failing step writes no field, except that the default of
\* an earlier field is in place when a later default fails and that the value
\* of a non-refreshable source is in the field it was refused for; every other
\* field holds what it held before the failing step.
C20_ErrorsAbort ==
    /\ [](err # NoErr => (pc = "done" /\ err.name \in BindingErrors /\ r = "nil"))
    /\ [](pc = "done" => ~ENABLED Next)
    /\ [](Failed => fetched = IF err.name \in BeforeFetch THEN <<>>
                               ELSE [j \in 1..sourceIdx |-> j])
    /\ []((Failed /\ err.name = "ErrGetParameters") =>
             err.src = sources[sourceIdx].id)
    /\ [][ err' # err =>
             \A i \in FieldIdx :
                \/ cfg'[i] = cfg[i]
                \/ /\ err'.name = "ErrBadDefaultFieldValue"
                   /\ \E f \in FieldIdx :
                         /\ i < f
                         /\ ParseInt(fields[f].options.defaultValue).err
                         /\ cfg'[f] = cfg[f]
                   /\ cfg'[i] = ParseInt(fields[i].options.defaultValue).val
                \/ /\ err'.name = "ErrSourceNotRefreshable"
                   /\ i = fieldsMap[err'.key]
                   /\ cfg'[i] = ParseInt(values[err'.key]).val ]_vars

\* Parse failed on a value of the first of two sources that does not coerce:
\* Param1 holds its default, a key of that source is still to be processed and
\* the second source was not fetched.
C20_AbortedMidway ==
    /\ Failed
    /\ err.name = "ErrBadFieldValue"
    /\ Len(sources) = 2 /\ sourceIdx = 1
    /\ pending # {}
    /\ cfg0[1] = 0 /\ cfg[1] = 7
    /\ fetched = <<1>>
    /\ r = "nil"

\* ------------------------------------------------------------------------
\* Claims about the walk over the record type

\* The key segment of a field declaration: the tag's key, else the name.
Segment(d) == IF d.tagged /\ d.tag.key # "" THEN d.tag.key ELSE d.name

\* The declaration asks for flatten.
Flatten(d) ==
    d.tagged /\ \E j \in 1..Len(d.tag.opts) : d.tag.opts[j] = <<"flatten">>

\* The declaration found at position pos of the record type rec.
RECURSIVE DeclAt(_, _)
DeclAt(rec, pos) ==
    IF Len(pos) = 1 THEN rec[pos[1]] ELSE DeclAt(rec[pos[1]].inner, Tail(pos))

\* The key segments of the enclosing record fields that are neither flattened
\* nor embedded, outermost first, followed by the field's own segment.
RECURSIVE PathOf(_, _)
PathOf(rec, pos) ==
    LET d == rec[pos[1]]
    IN  IF Len(pos) = 1 THEN <<Segment(d)>>
        ELSE (IF d.anonymous \/ Flatten(d) THEN <<>> ELSE <<Segment(d)>>)
                \o PathOf(d.inner, Tail(pos))

Snake(parts) == [j \in 1..Len(parts) |-> ToSnakeCase(parts[j])]

Walked == xpc \in {"extracted", "formatted"}

\* The nameParts of the i-th extracted field, as the arrays hold them now.
NameParts(i) == Contents(heap, extracted[i].nameParts)

\* The two extracted fields are declared in the same record.
Siblings(i, j) ==
    LET p == extracted[i].structField
        q == extracted[j].structField
    IN  /\ i # j
        /\ Len(p) = Len(q)
        /\ SubSeq(p, 1, Len(p) - 1) = SubSeq(q, 1, Len(q) - 1)

\* C21: once the record type is walked, and after any formatting of keys, the
\* nameParts of every extracted leaf are (up to the snake-casing of the
\* segments) the segments of its enclosing record fields that are neither
\* flattened nor embedded, followed by its own; and two sibling leaves with
\* different segments have different keys for a source.
C21_NamePartsArePath ==
    Walked =>
       /\ \A i \in DOMAIN extracted :
             Snake(NameParts(i)) = Snake(PathOf(target, extracted[i].structField))
       /\ \A i, j \in DOMAIN extracted :
             (/\ Siblings(i, j)
              /\ Segment(DeclAt(target, extracted[i].structField))
                   # Segment(DeclAt(target, extracted[j].structField)))
             => ParameterName(mockSource(1, TRUE), NameParts(i)).name
                  # ParameterName(mockSource(1, TRUE), NameParts(j)).name

\* The source the declaration's own tag sets ("" : none).
OwnSource(d) ==
    LET at == {j \in 1..Len(d.tag.opts) :
                 Len(d.tag.opts[j]) = 2 /\ d.tag.opts[j][1] = "source"}
    IN  IF d.tagged /\ at # {}
        THEN d.tag.opts[CHOOSE j \in at : \A k \in at : k <= j][2]
        ELSE ""

\* The source pinned on the field at pos: its own, else the one pinned on its
\* enclosing record field.
RECURSIVE PinnedSource(_, _, _)
PinnedSource(rec, pos, inherited) ==
    LET d   == rec[pos[1]]
        src == IF OwnSource(d) # "" THEN OwnSource(d) ELSE inherited
    IN  IF Len(pos) = 1 THEN src ELSE PinnedSource(d.inner, Tail(pos), src)

\* C22: every extracted field carries the source of its own tag or, without
\* one, the source pinned on its enclosing record field, also when its tag is
\* empty or absent; and with an empty or absent tag its segment is the
\* field's name and its other options are the default ones.
C22_SourceInherited ==
    Walked =>
       \A i \in DOMAIN extracted :
          LET d == DeclAt(target, extracted[i].structField)
          IN  /\ extracted[i].options.source
                   = PinnedSource(target, extracted[i].structField, "")
              /\ (~d.tagged \/ d.tag = EmptyTag) =>
                    extracted[i].options =
                       [ZeroOptions EXCEPT !.source = extracted[i].options.source]

\* All but the last element.
Front(parts) == SubSeq(parts, 1, Len(parts) - 1)

\* C23: the path an extracted field has in front of its own segment is made
\* of the segments of its enclosing record fields, outermost first, where an
\* embedded or flattened record field contributes nothing.
C23_InnerPath ==
    Walked =>
       \A i \in DOMAIN extracted :
          /\ Len(NameParts(i)) = Len(PathOf(target, extracted[i].structField))
          /\ Snake(Front(NameParts(i)))
               = Snake(Front(PathOf(target, extracted[i].structField)))

\* ------------------------------------------------------------------------
\* Claims about the coercion of maps and about the jitter

\* The entry cut at its first colon (ok is false when it has none).
CutAtFirst(entry) ==
    LET at == {j \in 1..Len(entry) : entry[j] = ":"}
    IN  IF at = {} THEN [ok |-> FALSE, key |-> <<>>, val |-> <<>>]
        ELSE LET j == CHOOSE j \in at : \A k \in at : j <= k
             IN  [ok |-> TRUE, key |-> SubSeq(entry, 1, j - 1),
                  val |-> SubSeq(entry, j + 1, Len(entry))]

Entries == Split(mapValue, ";")

Blank == \A j \in 1..Len(mapValue) : mapValue[j] = " "

\* The mapping of the entries, each cut at its first colon, a later entry
\* replacing an earlier one with the same key.
RECURSIVE Mapping(_)
Mapping(i) ==
    IF i = 0 THEN EmptyMap
    ELSE (CutAtFirst(Entries[i]).key :> CutAtFirst(Entries[i]).val) @@ Mapping(i - 1)

\* C24: the coercion of a raw value into a map fails exactly when the value
\* is not blank and one of its entries (the pieces between the semicolons)
\* holds no colon; otherwise the field is the mapping of the entries cut at
\* their first colon, the empty mapping for a blank value.
C24_CutAtFirstColon ==
    mpc = "done" =>
       /\ mapErr <=> (~Blank /\ \E i \in 1..Len(Entries) : ~CutAtFirst(Entries[i]).ok)
       /\ ~mapErr => /\ ~mapField.isNil
                     /\ mapField.mp = IF Blank THEN EmptyMap ELSE Mapping(Len(Entries))

\* C26: the ticker is created, and its period is at least the interval and at
\* most the interval plus a tenth of it.
C26_JitterBounded ==
    tpc # "start" =>
       /\ tpc = "ticking"
       /\ duration <= period
       /\ 10 * period <= 11 * duration

\* ------------------------------------------------------------------------
\* Claims about the groups

\* The places <<group, index>> of field i in the groups.
Places(i) ==
    {p \in UNION { {g} \X (1..Len(upd.timings[g].fields)) : g \in DOMAIN upd.timings } :
        upd.timings[p[1]].fields[p[2]] = i}

Resolved(i) ==
    /\ lastVal[i] # NoValue => cfg[i] = ParseInt(lastVal[i]).val
    /\ (lastVal[i] = NoValue /\ IsZero(cfg[i])) => fields[i].options.optional

\* C27: after a successful Parse every field, also one that shares its key
\* with another field, holds the value the last source asked of it returned
\* for its key, and a field no source returned a value for has gone through
\* the missing-value rules: it is non-zero (default or initial value) or it
\* is optional.
C27_NoFieldLeftOut == Succeeded => \A i \in FieldIdx : Resolved(i)

\* ------------------------------------------------------------------------
\* Claims about the channels and the fingerprints

\* C28: no step is a send on a closed channel: neither a task's send of an id
\* on the updates channel after the coordinator closed it, nor a forwarding
\* goroutine's send of a tick on the tick channel after it was closed.
C28_NoSendOnClosed == [][ ~(TaskSendPanic \/ ForwardPanic) ]_vars

\* The raw strings whose coercion gives the value the field holds.
RawOf(field) ==
    { raw \in RawValues \cup RefreshValues :
        ~ParseInt(raw).err /\ ParseInt(raw).val = cfg[field] }

\* A task stands between its write of the field and its write of the checksum.
Hashing(g, i) ==
    \E n \in 1..Len(tasks) :
       tasks[n].group = g /\ tasks[n].i = i /\ tasks[n].pc = "hash"

\* C29: once the tasks that wrote a registered field have stored their
\* checksum, the stored checksum of the field is the checksum of the raw
\* value last coerced into it.
C29_FingerprintOfApplied ==
    \A g \in DOMAIN upd.timings :
       \A i \in DOMAIN upd.timings[g].fields :
          ~Hashing(g, i)
            => \E raw \in RawOf(upd.timings[g].fields[i]) :
                  upd.timings[g].valueHashes[i] = ChecksumIEEE(raw)

\* The state of the channel call k of Refresh returned.
ReturnedChannel(k) ==
    IF calls[k].ch = "noRefresh" THEN noRefresh.updates ELSE upd.updates

\* C30: the channel a call of Refresh returned is closed only if the context
\* given to that call is cancelled.
C30_ClosedOnlyAfterOwnCancel ==
    \A k \in 1..Len(calls) :
       (calls[k].op = "Refresh" /\ ReturnedChannel(k) = "closed") => ctxDone[k]

====
